---- MODULE Spec2Model ----
(***************************************************************************)
(* Model of scilpy's streamline memory/layout routines                     *)
(* (scilpy/io/streamlines.py): an ArraySequence is decomposed into its     *)
(* flat (data, offsets, lengths) components on disk by                     *)
(* streamlines_to_memmap and rebuilt, whole or by index, by                *)
(* reconstruct_streamlines and its memmap / hdf5 entry points.             *)
(* The later sections model the helpers around it: ichunk, the tractogram  *)
(* loader, the dps / dpp attribute loaders, the data fetcher               *)
(* (scilpy/io/fetcher.py) and the adjacent-keyword test of                 *)
(* scil_search_keywords.py, each under a specification of its own.         *)
(*                                                                         *)
(* Scalars are integers. In the externalization pipeline an integer counts *)
(* steps of the float64 grid and float32 holds every second step, so that  *)
(* storing a float64 coordinate as float32 rounds it.                      *)
(***************************************************************************)
EXTENDS Integers, Sequences, FiniteSets, TLC

VARIABLES
    pc,        \* position of the externalization pipeline
    coll,      \* the ArraySequence handed to streamlines_to_memmap
    dtype,     \* strs_dtype of the pipeline
    fs,        \* the three backing files of the temporary directory
    tmp,       \* the TemporaryDirectory: "none", "alive" or "removed"
    releases,  \* how many times the temporary directory was removed
    written,   \* what streamlines_to_memmap wrote, as it returned it
    result,    \* outcome of the last reconstruction call
    store,     \* arrays handed to the read path (SpecRead)
    call,      \* the last read-path call: entry point, indices and key
    workers,   \* the pool's readers (SpecPool)
    archive,   \* the hdf5 archive (SpecH5)
    reads,     \* archive members read by the last hdf5 call
    sft,       \* the tractogram handed to the dps / dpp loaders (SpecAttr)
    attr,      \* the last dps / dpp loader call and its outcome
    home,      \* the files and directories under the scilpy home (SpecFetch)
    fetch,     \* the fetch_data calls made so far and the last one's outcome
    load,      \* the last load_tractogram_with_reference call (SpecLoad)
    gen,       \* the ichunk generator being consumed (SpecChunk)
    search     \* the last _test_adjacent_keywords call (SpecSearch)

streamVars == <<pc, coll, dtype, fs, tmp, releases, written, result, store,
                call, workers, archive, reads>>

toolVars == <<sft, attr, home, fetch, load, gen, search>>

vars == <<streamVars, toolVars>>

---------------------------------------------------------------------------
(* Bounds of the model *)

MaxStreamlines == 2   \* streamlines of a collection in the pipeline
MaxPoints == 2        \* points of one streamline
MaxStored == 3        \* streamlines of a stored encoding on the read path
MaxIdx == 3           \* length of a requested index list
NumWorkers == 2       \* readers in the pool

---------------------------------------------------------------------------
(* Generic helpers *)

Min(a, b) == IF a < b THEN a ELSE b
Max(a, b) == IF a > b THEN a ELSE b

SeqsUpTo(S, n) == UNION {[1..k -> S] : k \in 0..n}

RECURSIVE SumSeq(_)
SumSeq(s) == IF s = <<>> THEN 0 ELSE Head(s) + SumSeq(Tail(s))

RECURSIVE Concat(_)
Concat(ss) == IF ss = <<>> THEN <<>> ELSE Head(ss) \o Concat(Tail(ss))

\* The subsequence of s at the positions of mask, in ascending order.
RECURSIVE Select(_, _, _)
Select(s, mask, k) ==
    IF k > Len(s) THEN <<>>
    ELSE (IF k \in mask THEN <<s[k]>> ELSE <<>>) \o Select(s, mask, k + 1)

\* An optional argument: None, or a given value.
None == [given |-> FALSE, v |-> <<>>]
Some(x) == [given |-> TRUE, v |-> x]

\* An optional connection key.
NoKey == [given |-> FALSE, v |-> ""]
Key(k) == [given |-> TRUE, v |-> k]

NoResult == [status |-> "none", value |-> <<>>]
Ok(v) == [status |-> "ok", value |-> v]
Raise(e) == [status |-> e, value |-> <<>>]

---------------------------------------------------------------------------
(* numpy arrays, as far as the read path uses them.                        *)
(* An array is one-dimensional (ndim 1, its scalars in flat) or            *)
(* two-dimensional (ndim 2, its rows of three scalars in rows).            *)

Arr1(v) == [ndim |-> 1, flat |-> v, rows |-> <<>>]
Arr2(rows) == [ndim |-> 2, flat |-> <<>>, rows |-> rows]

\* a[i] for an integer i: numpy accepts -len <= i < len and counts a
\* negative i from the end; anything else is an IndexError.
IndexOk(a, i) == i >= -Len(a) /\ i < Len(a)
At(a, i) == IF i >= 0 THEN a[i + 1] ELSE a[Len(a) + i + 1]

\* a[lo:hi] of a one-dimensional array: the bounds are clipped, never an error.
ClipBound(x, n) == IF x < 0 THEN Max(x + n, 0) ELSE Min(x, n)
Slice(a, lo, hi) ==
    LET l == ClipBound(lo, Len(a))
        h == ClipBound(hi, Len(a))
    IN IF l < h THEN SubSeq(a, l + 1, h) ELSE <<>>

\* np.arange(n)
Arange(n) == [k \in 1..n |-> k - 1]

\* A wrong flatten: column-major order (all x, then all y, then all z).
FlattenColumnMajor(rows) ==
    [j \in 1..(3 * Len(rows)) |->
        rows[((j - 1) % Len(rows)) + 1][((j - 1) \div Len(rows)) + 1]]

\* np.array(data).flatten(): the rows one after the other (row-major).
Flatten(rows) == Concat(rows)

\* streamline.reshape((n, 3)) of a one-dimensional array of 3*n scalars.
ReshapeOk(a, n) == Len(a) = 3 * n
Reshape(a, n) ==
    [p \in 1..n |-> <<a[3 * (p - 1) + 1], a[3 * (p - 1) + 2], a[3 * (p - 1) + 3]>>]

---------------------------------------------------------------------------
(* reconstruct_streamlines *)

\* if data.ndim == 2: data = np.array(data).flatten()
FlatData(data) == IF data.ndim = 2 THEN Flatten(data.rows) ELSE data.flat

\* A wrong default: the requested indices sorted and made unique.
RECURSIVE SortedUnique(_, _, _)
SortedUnique(S, lo, hi) ==
    IF lo > hi THEN <<>>
    ELSE (IF lo \in S THEN <<lo>> ELSE <<>>) \o SortedUnique(S, lo + 1, hi)

RequestedSorted(indices, n) ==
    IF indices.given
    THEN SortedUnique({indices.v[k] : k \in DOMAIN indices.v}, -(n + 1), n + 1)
    ELSE Arange(n)

\* if indices is None: indices = np.arange(len(offsets))
Requested(indices, n) == IF indices.given THEN indices.v ELSE Arange(n)

\* A wrong slice: the offset taken as a scalar offset instead of a point offset.
StreamlineSliceUnscaled(flat, o, l) == Slice(flat, o, o + l * 3)

\* data[offsets[i]*3:offsets[i]*3 + lengths[i]*3]
StreamlineSlice(flat, o, l) == Slice(flat, o * 3, o * 3 + l * 3)

\* The loop over the requested indices. An index that offsets or lengths
\* does not have raises IndexError, a slice that reshape cannot arrange in
\* rows of three raises ValueError; either ends the call with no result.
RECURSIVE ReconstructLoop(_, _, _, _, _)
ReconstructLoop(flat, offsets, lengths, todo, acc) ==
    IF todo = <<>> THEN Ok(acc)
    ELSE LET i == Head(todo) IN
         IF ~IndexOk(offsets, i) \/ ~IndexOk(lengths, i) THEN Raise("IndexError")
         ELSE LET o == At(offsets, i)
                  l == At(lengths, i)
                  streamline == StreamlineSlice(flat, o, l)
              IN IF ~ReshapeOk(streamline, l) THEN Raise("ValueError")
                 ELSE ReconstructLoop(flat, offsets, lengths, Tail(todo),
                                      Append(acc, Reshape(streamline, l)))

reconstruct_streamlines(data, offsets, lengths, indices) ==
    ReconstructLoop(FlatData(data), offsets, lengths,
                    Requested(indices, Len(offsets)), <<>>)

---------------------------------------------------------------------------
(* nibabel's ArraySequence, as streamlines_to_memmap sees it: _data (rows   *)
(* of three scalars), _offsets and _lengths (one entry per streamline).    *)

\* The streamlines a collection can hold: coordinates 1 is on the float64
\* grid only, 0 and 2 are on the float32 grid too.
Points == {<<1, 0, 0>>, <<2, 2, 2>>}

StreamlineSet == SeqsUpTo(Points, MaxPoints)

RECURSIVE CumSum(_, _)
CumSum(lens, from) ==
    IF lens = <<>> THEN <<>> ELSE <<from>> \o CumSum(Tail(lens), from + Head(lens))

\* ArraySequence(streamlines): the points one after the other, the offsets
\* the running sum of the lengths.
Compact(strs) ==
    [data |-> Concat(strs),
     offsets |-> CumSum([k \in DOMAIN strs |-> Len(strs[k])], 0),
     lengths |-> [k \in DOMAIN strs |-> Len(strs[k])]]

\* seq[mask]: slicing or re-indexing gives a view that shares _data and
\* keeps the selected entries of _offsets and _lengths.
View(base, mask) ==
    [data |-> base.data,
     offsets |-> Select(base.offsets, mask, 1),
     lengths |-> Select(base.lengths, mask, 1)]

\* The streamlines of a collection, C[k] for every k.
StreamlinesOf(c) ==
    [k \in DOMAIN c.offsets |->
        SubSeq(c.data, c.offsets[k] + 1, c.offsets[k] + c.lengths[k])]

---------------------------------------------------------------------------
(* The temporary directory and numpy's memory-mapped files *)

NoFile == [exists |-> FALSE, v |-> <<>>]
FileOf(v) == [exists |-> TRUE, v |-> v]
NoFiles == [data |-> NoFile, offsets |-> NoFile, lengths |-> NoFile]

\* A cleanup that removes data.dat only.
CleanupDataOnly(files) == [files EXCEPT !.data = NoFile]

\* TemporaryDirectory.cleanup(), also run by its finalizer: the directory
\* and everything in it is removed.
Cleanup(files) == [f \in DOMAIN files |-> NoFile]

\* data[:] = ... into an array of strs_dtype: float32 keeps every second
\* step of the float64 grid.
Cast(dt, x) == IF dt = "float32" THEN x - (x % 2) ELSE x
CastAll(dt, v) == [j \in DOMAIN v |-> Cast(dt, v[j])]

\* np.memmap cannot map a file of zero bytes: an array without elements
\* can neither be created (mode 'w+') nor opened (mode 'r').
Mappable(v) == Len(v) > 0

\* A wrong write: the lengths written into offsets.dat.
WrittenOffsetsFromLengths(c) == c.lengths

\* offsets[:] = input_streamlines._offsets[:]
WrittenOffsets(c) == c.offsets

\* lengths[:] = input_streamlines._lengths[:] into an int32 array, which
\* holds every length below 2^31 as it is.
WrittenLengths(c) == c.lengths

\* streamlines_to_memmap: the three arrays in writing order. Writing stops
\* at the first array np.memmap cannot create; the files written before it
\* stay in the directory.
ToWrite(c, dt) ==
    <<CastAll(dt, Flatten(c.data)),
      WrittenOffsets(c),
      WrittenLengths(c)>>

FirstUnmappable(arrays) ==
    IF \E k \in DOMAIN arrays : ~Mappable(arrays[k])
    THEN CHOOSE k \in DOMAIN arrays :
            ~Mappable(arrays[k]) /\ \A j \in 1..(k - 1) : Mappable(arrays[j])
    ELSE Len(arrays) + 1

streamlines_to_memmap(c, dt) ==
    LET arrays == ToWrite(c, dt)
        stop == FirstUnmappable(arrays)
        file(k) == IF k < stop THEN FileOf(arrays[k]) ELSE NoFile
    IN [status |-> IF stop > Len(arrays) THEN "ok" ELSE "MemmapError",
        files |-> [data |-> file(1), offsets |-> file(2), lengths |-> file(3)]]

\* A wrong open: the write call of streamlines_to_memmap pasted into the
\* reader (mode='w+' with the file's shape), which zero-fills the file.
OpenZeroFill(file) ==
    IF ~file.exists THEN [status |-> "FileNotFoundError", v |-> <<>>, file |-> file]
    ELSE IF ~Mappable(file.v) THEN [status |-> "MemmapError", v |-> <<>>, file |-> file]
    ELSE LET z == [j \in DOMAIN file.v |-> 0]
         IN [status |-> "ok", v |-> z, file |-> FileOf(z)]

\* np.memmap(filename, dtype=..., mode='r'): a one-dimensional read-only
\* array of the file's scalars; the file is left as it is.
OpenForRead(file) ==
    IF ~file.exists THEN [status |-> "FileNotFoundError", v |-> <<>>, file |-> file]
    ELSE IF ~Mappable(file.v) THEN [status |-> "MemmapError", v |-> <<>>, file |-> file]
    ELSE [status |-> "ok", v |-> file.v, file |-> file]

\* reconstruct_streamlines_from_memmap: the outcome and the files after the
\* call. The files are opened in the order data, offsets, lengths; the
\* first failing open ends the call.
reconstruct_streamlines_from_memmap(files, indices) ==
    LET d == OpenForRead(files.data)
        o == OpenForRead(files.offsets)
        l == OpenForRead(files.lengths)
    IN IF d.status # "ok"
       THEN [result |-> Raise(d.status), files |-> [files EXCEPT !.data = d.file]]
       ELSE IF o.status # "ok"
       THEN [result |-> Raise(o.status),
             files |-> [files EXCEPT !.data = d.file, !.offsets = o.file]]
       ELSE IF l.status # "ok"
       THEN [result |-> Raise(l.status),
             files |-> [data |-> d.file, offsets |-> o.file, lengths |-> l.file]]
       ELSE [result |-> reconstruct_streamlines(Arr1(d.v), o.v, l.v, indices),
             files |-> [data |-> d.file, offsets |-> o.file, lengths |-> l.file]]

---------------------------------------------------------------------------
(* reconstruct_streamlines_from_hdf5 *)

\* An archive is a root group and the groups under connection keys; a group
\* records which of the members data, offsets and lengths it has.
NoGroup == [members |-> {}, data |-> Arr1(<<>>), offsets |-> <<>>, lengths |-> <<>>]
GroupOf(enc, members) ==
    [members |-> members,
     data |-> IF "data" \in members THEN enc.data ELSE Arr1(<<>>),
     offsets |-> IF "offsets" \in members THEN enc.offsets ELSE <<>>,
     lengths |-> IF "lengths" \in members THEN enc.lengths ELSE <<>>]

\* A wrong lookup: the test for the data member left out.
HasDataUnchecked(group) == TRUE

\* 'data' in group
HasData(group) == "data" \in group.members

\* The outcome and the members the call read. group[name] of a member the
\* group does not have raises KeyError.
reconstruct_streamlines_from_hdf5(file, key) ==
    IF key.given /\ key.v \notin DOMAIN file.groups
    THEN [result |-> Ok(<<>>), reads |-> {}]
    ELSE IF key.given /\ ~HasData(file.groups[key.v])
    THEN [result |-> Ok(<<>>), reads |-> {}]
    ELSE LET group == IF key.given THEN file.groups[key.v] ELSE file.root IN
         IF "data" \notin group.members
         THEN [result |-> Raise("KeyError"), reads |-> {}]
         ELSE IF "offsets" \notin group.members
         THEN [result |-> Raise("KeyError"), reads |-> {"data"}]
         ELSE IF "lengths" \notin group.members
         THEN [result |-> Raise("KeyError"), reads |-> {"data", "offsets"}]
         ELSE [result |-> reconstruct_streamlines(Arr1(FlatData(group.data)),
                                                  group.offsets, group.lengths, None),
               reads |-> {"data", "offsets", "lengths"}]

---------------------------------------------------------------------------
(* The externalization pipeline: streamlines_to_memmap, reconstruction     *)
(* from the returned paths, and the end of the scope that owns the         *)
(* temporary directory.                                                    *)

Collections == SeqsUpTo(StreamlineSet, MaxStreamlines)

\* Index lists the pipeline asks for: None, the empty list, or one index,
\* in range, negative or past the end.
PipelineIndices(n) == {None} \cup {Some(s) : s \in SeqsUpTo(-(n + 1)..n, 1)}

\* The parts of the state a specification does not use.
NoEncoding == [data |-> Arr1(<<>>), offsets |-> <<>>, lengths |-> <<>>]
NoCall == [fn |-> "none", indices |-> None, key |-> NoKey]
NoArchive == [root |-> NoGroup, groups |-> <<>>]

Unused == "unused"

ToolsIdle ==
    /\ sft = Unused
    /\ attr = Unused
    /\ home = Unused
    /\ fetch = Unused
    /\ load = Unused
    /\ gen = Unused
    /\ search = Unused

PipelineIdle ==
    /\ pc = "idle"
    /\ coll = Compact(<<>>)
    /\ dtype = "float32"
    /\ tmp = "none"
    /\ releases = 0
    /\ written = NoFiles

Idle ==
    /\ store = NoEncoding
    /\ call = NoCall
    /\ workers = <<>>
    /\ archive = NoArchive
    /\ reads = {}

Init ==
    /\ ToolsIdle
    /\ pc = "start"
    /\ \E strs \in Collections : \E mask \in SUBSET (1..Len(strs)) :
          coll = IF mask = 1..Len(strs) THEN Compact(strs)
                 ELSE View(Compact(strs), mask)
    /\ dtype \in {"float32", "float64"}
    /\ fs = NoFiles
    /\ tmp = "none"
    /\ releases = 0
    /\ written = NoFiles
    /\ result = NoResult
    /\ Idle

\* tmp_dir, filenames = streamlines_to_memmap(coll, dtype). When np.memmap
\* raises, the only reference to the TemporaryDirectory is the local
\* tmp_dir, and its finalizer removes the directory as the frame unwinds.
Externalize ==
    /\ pc = "start"
    /\ LET r == streamlines_to_memmap(coll, dtype) IN
       IF r.status = "ok"
       THEN /\ pc' = "held"
            /\ tmp' = "alive"
            /\ fs' = r.files
            /\ written' = r.files
            /\ UNCHANGED <<releases, result>>
       ELSE /\ pc' = "failed"
            /\ tmp' = "removed"
            /\ fs' = Cleanup(r.files)
            /\ releases' = releases + 1
            /\ result' = Raise(r.status)
            /\ UNCHANGED written
    /\ UNCHANGED <<toolVars, coll, dtype, store, call, workers, archive, reads>>

\* reconstruct_streamlines_from_memmap(filenames, indices, dtype) inside
\* the owning scope; an exception leaves the scope.
ReconstructFromMemmap ==
    /\ pc = "held"
    /\ \E indices \in PipelineIndices(Len(written.offsets.v)) :
          LET r == reconstruct_streamlines_from_memmap(fs, indices) IN
          /\ result' = r.result
          /\ fs' = r.files
          /\ call' = [fn |-> "memmap", indices |-> indices, key |-> NoKey]
          /\ pc' = IF r.result.status = "ok" THEN "held" ELSE "raised"
    /\ UNCHANGED <<toolVars, coll, dtype, tmp, releases, written, store, workers, archive, reads>>

\* The owning scope ends, normally or by the exception: the last reference
\* to the TemporaryDirectory goes and the directory is removed.
ScopeExit ==
    /\ pc \in {"held", "raised"}
    /\ pc' = "exited"
    /\ tmp' = "removed"
    /\ fs' = Cleanup(fs)
    /\ releases' = releases + 1
    /\ UNCHANGED <<toolVars, coll, dtype, written, result, store, call, workers, archive, reads>>

Next == Externalize \/ ReconstructFromMemmap \/ ScopeExit

Spec == Init /\ [][Next]_vars

---------------------------------------------------------------------------
(* The read path on stored encodings: reconstruct_streamlines on arrays    *)
(* in either layout, and its hdf5 entry point on the same arrays stored    *)
(* in the root group of an archive.                                        *)

\* Stored data whose scalar at flat position j is j, in rows and flat.
IotaRows(n) == [p \in 1..n |-> <<3 * (p - 1), 3 * (p - 1) + 1, 3 * (p - 1) + 2>>]
IotaFlat(n) == [j \in 1..(3 * n) |-> j - 1]

\* The encoding of [[[0,0,0],[1,0,0]], [[2,2,2]]].
ExampleRows == <<(<<0, 0, 0>>), (<<1, 0, 0>>), (<<2, 2, 2>>)>>
ExampleFlat == <<0, 0, 0, 1, 0, 0, 2, 2, 2>>
ExampleOffsets == <<0, 2>>
ExampleLengths == <<2, 1>>

\* Point counts of a stored streamline.
StoredLengths == {0, 1, 2}

\* The well-formed encodings: offsets the running sum of lengths, data of
\* 3 * sum(lengths) scalars, in either layout.
StoredSet ==
    {[data |-> IF nd = 2 THEN Arr2(IotaRows(SumSeq(lens)))
               ELSE Arr1(IotaFlat(SumSeq(lens))),
      offsets |-> CumSum(lens, 0),
      lengths |-> lens] :
        lens \in SeqsUpTo(StoredLengths, MaxStored), nd \in {1, 2}}

ExampleSet ==
    {[data |-> d, offsets |-> ExampleOffsets, lengths |-> ExampleLengths] :
        d \in {Arr1(ExampleFlat), Arr2(ExampleRows)}}

IndexArgs(n) == {None} \cup {Some(s) : s \in SeqsUpTo(-(n + 1)..n, MaxIdx)}

InitRead ==
    /\ ToolsIdle
    /\ store \in StoredSet \cup ExampleSet
    /\ call = NoCall
    /\ result = NoResult
    /\ fs = NoFiles
    /\ archive = [root |-> GroupOf(store, {"data", "offsets", "lengths"}),
                  groups |-> <<>>]
    /\ reads = {}
    /\ workers = <<>>
    /\ PipelineIdle

ReadArrays ==
    /\ call.fn = "none"
    /\ \E indices \in IndexArgs(Len(store.offsets)) :
          /\ call' = [fn |-> "arrays", indices |-> indices, key |-> NoKey]
          /\ result' = reconstruct_streamlines(store.data, store.offsets,
                                               store.lengths, indices)
    /\ UNCHANGED <<toolVars, pc, coll, dtype, fs, tmp, releases, written, store, workers,
                   archive, reads>>

ReadHdf5 ==
    /\ call.fn = "none"
    /\ LET r == reconstruct_streamlines_from_hdf5(archive, NoKey) IN
          /\ call' = [fn |-> "hdf5", indices |-> None, key |-> NoKey]
          /\ result' = r.result
          /\ reads' = r.reads
    /\ UNCHANGED <<toolVars, pc, coll, dtype, fs, tmp, releases, written, store, workers,
                   archive>>

NextRead == ReadArrays \/ ReadHdf5

SpecRead == InitRead /\ [][NextRead]_vars

---------------------------------------------------------------------------
(* Properties of the read path (SpecRead) *)

\* The scalar at flat position j (from 0) of stored data, by index
\* arithmetic on its layout.
ScalarAt(enc, j) ==
    IF enc.data.ndim = 2 THEN enc.data.rows[(j \div 3) + 1][(j % 3) + 1]
    ELSE enc.data.flat[j + 1]

\* Stored streamline i (from 0): its lengths[i] points from point offsets[i] on.
StoredStreamline(enc, i) ==
    [p \in 1..enc.lengths[i + 1] |->
        <<ScalarAt(enc, 3 * (enc.offsets[i + 1] + p - 1)),
          ScalarAt(enc, 3 * (enc.offsets[i + 1] + p - 1) + 1),
          ScalarAt(enc, 3 * (enc.offsets[i + 1] + p - 1) + 2)>>]

StoredCount == Len(store.offsets)
InRange(i) == i >= 0 /\ i < StoredCount

\* The index list of the last call, None read as all indices in order.
CallIndices == IF call.indices.given THEN call.indices.v ELSE Arange(StoredCount)

C3_OutOfRangeRejected ==
    (call.fn = "arrays" /\ call.indices.given
        /\ \E k \in DOMAIN call.indices.v : ~InRange(call.indices.v[k]))
    => result = Raise("IndexError")

\* C4: every streamline a call returns has lengths[i] points, the p-th being
\* the scalars 3*(offsets[i]+p), +1 and +2 of data, i the requested index
\* (a negative one counted from the end, as numpy reads it).
C4_SliceExactness ==
    (call.fn = "arrays" /\ result.status = "ok")
    => /\ Len(result.value) = Len(CallIndices)
       /\ \A k \in DOMAIN result.value :
             LET i == IF CallIndices[k] >= 0 THEN CallIndices[k]
                      ELSE StoredCount + CallIndices[k]
             IN /\ Len(result.value[k]) = store.lengths[i + 1]
                /\ result.value[k] = StoredStreamline(store, i)

C4_Witness ==
    /\ call.fn = "arrays"
    /\ store.data = Arr1(ExampleFlat)
    /\ store.offsets = ExampleOffsets
    /\ store.lengths = ExampleLengths
    /\ call.indices = Some(<<1>>)
    /\ result = Ok(<< <<(<<2, 2, 2>>)>> >>)

\* The row-major flattening of N rows of three scalars, by index arithmetic.
RowMajor(rows) ==
    [j \in 1..(3 * Len(rows)) |-> rows[((j - 1) \div 3) + 1][((j - 1) % 3) + 1]]

\* C5: on data stored as N rows of 3 scalars, reconstruct_streamlines and
\* reconstruct_streamlines_from_hdf5 return what they return on the
\* row-major flattened array of 3N scalars.
C5_DimensionalityTolerance ==
    (call.fn \in {"arrays", "hdf5"} /\ store.data.ndim = 2)
    => result = ReconstructLoop(RowMajor(store.data.rows), store.offsets,
                                store.lengths, CallIndices, <<>>)

C5_Witness ==
    /\ call.fn = "hdf5"
    /\ store.data.ndim = 2
    /\ store.lengths = <<2, 1>>
    /\ result.status = "ok"
    /\ Len(result.value) = 2
    /\ Len(result.value[1]) = 2

---------------------------------------------------------------------------
(* Properties of the externalization pipeline (Spec) *)

AllFilesExist == \A f \in DOMAIN fs : fs[f].exists
NoFileExists == \A f \in DOMAIN fs : ~fs[f].exists

\* C1: for every collection, streamlines_to_memmap followed by
\* reconstruct_streamlines_from_memmap with indices None returns the
\* streamlines of the collection, in order and point for point.
C1_RoundTrip ==
    /\ pc # "failed"
    /\ (call.fn = "memmap" /\ ~call.indices.given)
          => result = Ok(StreamlinesOf(coll))

WrittenData == written.data.v
WrittenOffs == written.offsets.v
WrittenLens == written.lengths.v

\* A collection built from its streamlines, not a view of a larger one.
IsCompact(c) == c = Compact(StreamlinesOf(c))

OneEntryPerStreamline ==
    /\ Len(WrittenOffs) = Len(coll.offsets)
    /\ Len(WrittenLens) = Len(coll.offsets)

Contiguous ==
    /\ WrittenOffs[1] = 0
    /\ \A i \in 1..(Len(WrittenOffs) - 1) :
          WrittenOffs[i + 1] = WrittenOffs[i] + WrittenLens[i]
    /\ Len(WrittenData) = 3 * SumSeq(WrittenLens)

---------------------------------------------------------------------------
(* Archives with connection keys (SpecH5) *)

KeySet == {"1_2", "2_3"}

AllMembers == {"data", "offsets", "lengths"}

\* What an archive holds under a key: nothing, a group without members, a
\* group with offsets and lengths but no data, or a group with all three.
KeyStates == {"absent", "empty", "nodata", "full"}

GroupIn(enc, state) ==
    IF state = "full" THEN GroupOf(enc, AllMembers)
    ELSE IF state = "nodata" THEN GroupOf(enc, {"offsets", "lengths"})
    ELSE NoGroup

InitH5 ==
    /\ ToolsIdle
    /\ \E enc \in StoredSet \cup ExampleSet :
       \E states \in [KeySet -> KeyStates] :
       \E rootState \in {"empty", "full"} :
          archive = [root |-> GroupIn(enc, rootState),
                     groups |-> [k \in {q \in KeySet : states[q] # "absent"} |->
                                    GroupIn(enc, states[k])]]
    /\ reads = {}
    /\ call = NoCall
    /\ result = NoResult
    /\ store = NoEncoding
    /\ fs = NoFiles
    /\ workers = <<>>
    /\ PipelineIdle

CallHdf5 ==
    /\ call.fn = "none"
    /\ \E key \in {NoKey} \cup {Key(k) : k \in KeySet} :
          LET r == reconstruct_streamlines_from_hdf5(archive, key) IN
          /\ call' = [fn |-> "hdf5", indices |-> None, key |-> key]
          /\ result' = r.result
          /\ reads' = r.reads
    /\ UNCHANGED <<toolVars, pc, coll, dtype, fs, tmp, releases, written, store, workers,
                   archive>>

NextH5 == CallHdf5

SpecH5 == InitH5 /\ [][NextH5]_vars

\* All streamlines of a group, in stored order.
AllStreamlines(group) ==
    [k \in DOMAIN group.offsets |-> StoredStreamline(group, k - 1)]

KeyPresent == call.key.v \in DOMAIN archive.groups

\* C6: with a key that is absent from the archive, or present with a group
\* that has no data member, the call returns an empty collection, raises
\* nothing and reads no member; with a key whose group has its data member,
\* or with no key on a root group that has it, the call returns all
\* streamlines of the group in stored order.
C6_MissingKeyIsEmpty ==
    call.fn = "hdf5" =>
        /\ (call.key.given /\ ~KeyPresent) => (result = Ok(<<>>) /\ reads = {})
        /\ (call.key.given /\ KeyPresent
               /\ "data" \notin archive.groups[call.key.v].members)
              => (result = Ok(<<>>) /\ reads = {})
        /\ (call.key.given /\ KeyPresent
               /\ "data" \in archive.groups[call.key.v].members)
              => result = Ok(AllStreamlines(archive.groups[call.key.v]))
        /\ (~call.key.given /\ "data" \in archive.root.members)
              => result = Ok(AllStreamlines(archive.root))

C6_Witness ==
    /\ call.fn = "hdf5"
    /\ call.key = Key("1_2")
    /\ "1_2" \in DOMAIN archive.groups
    /\ archive.groups["1_2"].members = {"offsets", "lengths"}
    /\ Len(archive.groups["1_2"].offsets) = 2
    /\ "data" \in archive.root.members
    /\ "2_3" \notin DOMAIN archive.groups
    /\ result = Ok(<<>>)
    /\ reads = {}

---------------------------------------------------------------------------
(* A pool of readers on the same three files (SpecPool). The pool is       *)
(* started after streamlines_to_memmap has returned and the owning scope   *)
(* ends after every reader has finished. A reader is                       *)
(* reconstruct_streamlines_from_memmap taken one step at a time: the three *)
(* opens, one loop iteration per index, the return. A memory-mapped array  *)
(* reads the file as it is at the time of the read.                        *)

PoolStreamlines == {<< <<2, 2, 2>> >>, << <<1, 0, 0>>, <<2, 2, 2>> >>}
PoolCollections == SeqsUpTo(PoolStreamlines, MaxStreamlines) \ {<<>>}

\* The index subset of a reader: everything, the last and the first
\* streamline in that order, or an index past the end.
PoolIndices(n) == {None, Some(<<n - 1, 0>>), Some(<<n>>)}

Reader(indices) ==
    [pc |-> "open_data", indices |-> indices, todo |-> <<>>, acc |-> <<>>,
     result |-> NoResult]

InitPool ==
    /\ ToolsIdle
    /\ pc = "start"
    /\ \E strs \in PoolCollections : coll = Compact(strs)
    /\ dtype = "float32"
    /\ fs = NoFiles
    /\ tmp = "none"
    /\ releases = 0
    /\ written = NoFiles
    /\ result = NoResult
    /\ Idle

StartPool ==
    /\ pc = "held"
    /\ workers = <<>>
    /\ \E assigned \in [1..NumWorkers -> PoolIndices(Len(written.offsets.v))] :
          workers' = [w \in 1..NumWorkers |-> Reader(assigned[w])]
    /\ pc' = "pool"
    /\ UNCHANGED <<toolVars, coll, dtype, fs, tmp, releases, written, result, store, call,
                   archive, reads>>

Finished(reader, res) == [reader EXCEPT !.pc = "done", !.result = res]

\* data = np.memmap(...), offsets = np.memmap(...), lengths = np.memmap(...)
ReaderOpen(w) ==
    /\ pc = "pool"
    /\ workers[w].pc \in {"open_data", "open_offsets", "open_lengths"}
    /\ LET name == IF workers[w].pc = "open_data" THEN "data"
                   ELSE IF workers[w].pc = "open_offsets" THEN "offsets"
                   ELSE "lengths"
           r == OpenForRead(fs[name])
       IN /\ fs' = [fs EXCEPT ![name] = r.file]
          /\ workers' =
                [workers EXCEPT ![w] =
                    IF r.status # "ok" THEN Finished(@, Raise(r.status))
                    ELSE IF name = "data" THEN [@ EXCEPT !.pc = "open_offsets"]
                    ELSE IF name = "offsets" THEN [@ EXCEPT !.pc = "open_lengths"]
                    ELSE [@ EXCEPT !.pc = "loop",
                                   !.todo = Requested(workers[w].indices,
                                                      Len(fs.offsets.v))]]
    /\ UNCHANGED <<toolVars, pc, coll, dtype, tmp, releases, written, result, store, call,
                   archive, reads>>

\* One iteration of the loop of reconstruct_streamlines.
ReaderLoop(w) ==
    /\ pc = "pool"
    /\ workers[w].pc = "loop"
    /\ workers[w].todo # <<>>
    /\ LET r == ReconstructLoop(FlatData(Arr1(fs.data.v)), fs.offsets.v,
                                fs.lengths.v, <<Head(workers[w].todo)>>,
                                workers[w].acc)
       IN workers' =
             [workers EXCEPT ![w] =
                 IF r.status # "ok" THEN Finished(@, r)
                 ELSE [@ EXCEPT !.acc = r.value, !.todo = Tail(@)]]
    /\ UNCHANGED <<toolVars, pc, coll, dtype, fs, tmp, releases, written, result, store,
                   call, archive, reads>>

\* return ArraySequence(streamlines)
ReaderReturn(w) ==
    /\ pc = "pool"
    /\ workers[w].pc = "loop"
    /\ workers[w].todo = <<>>
    /\ workers' = [workers EXCEPT ![w] = Finished(@, Ok(@.acc))]
    /\ UNCHANGED <<toolVars, pc, coll, dtype, fs, tmp, releases, written, result, store,
                   call, archive, reads>>

\* Every reader has finished: the pool is joined and the owning scope ends.
PoolScopeExit ==
    /\ pc = "pool"
    /\ \A w \in DOMAIN workers : workers[w].pc = "done"
    /\ pc' = "exited"
    /\ tmp' = "removed"
    /\ fs' = Cleanup(fs)
    /\ releases' = releases + 1
    /\ UNCHANGED <<toolVars, coll, dtype, written, result, store, call, workers, archive,
                   reads>>

NextPool ==
    \/ Externalize
    \/ StartPool
    \/ \E w \in DOMAIN workers : ReaderOpen(w)
    \/ \E w \in DOMAIN workers : ReaderLoop(w)
    \/ \E w \in DOMAIN workers : ReaderReturn(w)
    \/ PoolScopeExit

SpecPool == InitPool /\ [][NextPool]_vars

\* What a reader with the given index subset obtains when it runs alone on
\* the files as streamlines_to_memmap wrote them.
Alone(indices) ==
    reconstruct_streamlines(Arr1(written.data.v), written.offsets.v,
                            written.lengths.v, indices)

\* C9: under every interleaving of the readers' steps, a reader that has
\* finished has obtained what it obtains when it runs alone.
C9_ConcurrentReaders ==
    \A w \in DOMAIN workers :
        workers[w].pc = "done" => workers[w].result = Alone(workers[w].indices)

C9_Witness ==
    /\ pc = "pool"
    /\ \A w \in DOMAIN workers : workers[w].pc = "done"
    /\ workers[1].indices = None
    /\ workers[2].indices = Some(<<1, 0>>)
    /\ workers[1].result.status = "ok"
    /\ workers[2].result.status = "ok"
    /\ Len(workers[1].result.value) = 2
    /\ workers[2].result.value[1] = workers[1].result.value[2]
    /\ workers[2].result.value[1] # workers[2].result.value[2]

---------------------------------------------------------------------------
(* load_dps_files_as_dps and load_dpp_files_as_dpp: scalar files attached  *)
(* to a tractogram as per-streamline or per-point data.  An array is the   *)
(* sequence of its values; parser.error ends the call (argparse exits).    *)

AttrKeys == {"fa", "md"}

\* A tractogram's table of arrays by key.
NoData == [present |-> FALSE, values |-> <<>>]
DataOf(values) == [present |-> TRUE, values |-> values]

Filled(count, x) == [i \in 1..count |-> x]

\* len(sft) and len(sft.streamlines._data).
Shapes ==
    {[n |-> n, pts |-> p] : n \in 0..MaxStreamlines,
                            p \in 0..(MaxStreamlines * MaxPoints)}

\* The tractograms a script hands to the loaders: every array already
\* attached has one value per streamline, or one per point.
Tractograms ==
    {[n |-> shape.n, pts |-> shape.pts,
      data_per_streamline |->
          [k \in AttrKeys |-> IF k \in dps THEN DataOf(Filled(shape.n, 0))
                              ELSE NoData],
      data_per_point |->
          [k \in AttrKeys |-> IF k \in dpp THEN DataOf(Filled(shape.pts, 0))
                              ELSE NoData]] :
        shape \in {s \in Shapes : s.n <= s.pts /\ s.pts <= s.n * MaxPoints},
        dps \in SUBSET AttrKeys, dpp \in SUBSET AttrKeys}

\* A .npy or .txt file of scalars, named <stem><ext>.
ScalarFile(stem, values) == [stem |-> stem, ext |-> ".npy", values |-> values]

\* os.path.splitext(os.path.basename(file))[0]
KeyOfFile(file) == file.stem

\* np.squeeze drops the axes of length one: an array of a single value
\* becomes a 0-d array.
Squeeze(values) ==
    IF Len(values) = 1 THEN [ndim |-> 0, values |-> values]
    ELSE [ndim |-> 1, values |-> values]

AttrResult(status, msg, new_keys) ==
    [status |-> status, msg |-> msg, new_keys |-> new_keys]

\* parser.error(msg)
ParserError(msg) == AttrResult("usage", msg, <<>>)

AttachDps(t, key, values) ==
    [t EXCEPT !.data_per_streamline[key] = DataOf(values)]

AttachDpp(t, key, values) ==
    [t EXCEPT !.data_per_point[key] = DataOf(values)]

\* The loop of load_dps_files_as_dps from file i on; t is the tractogram as
\* the earlier iterations left it.
RECURSIVE DpsLoop(_, _, _, _, _, _)
DpsLoop(files, t, keys, overwrite, i, new_keys) ==
    IF i > Len(files) THEN [outcome |-> AttrResult("ok", "", new_keys), sft |-> t]
    ELSE
    LET key == IF ~keys.given THEN KeyOfFile(files[i]) ELSE keys.v[i]
        data == Squeeze(files[i].values)
    IN  IF t.data_per_streamline[key].present /\ ~overwrite
        THEN [outcome |-> ParserError("key exists"), sft |-> t]
        ELSE IF data.ndim = 0
        THEN [outcome |-> AttrResult("TypeError", "", <<>>), sft |-> t]
        ELSE IF Len(data.values) # t.n
        THEN [outcome |-> ParserError("wrong size"), sft |-> t]
        ELSE DpsLoop(files, AttachDps(t, key, data.values), keys, overwrite,
                     i + 1, Append(new_keys, key))

load_dps_files_as_dps(files, t, keys, overwrite) ==
    IF keys.given /\ Len(keys.v) # Len(files)
    THEN [outcome |-> ParserError("one key per file"), sft |-> t]
    ELSE DpsLoop(files, t, keys, overwrite, 1, <<>>)

\* The loop of load_dpp_files_as_dpp: the key is looked up in
\* data_per_streamline, the data is attached to data_per_point.
RECURSIVE DppLoop(_, _, _, _, _, _)
DppLoop(files, t, keys, overwrite, i, new_keys) ==
    IF i > Len(files) THEN [outcome |-> AttrResult("ok", "", new_keys), sft |-> t]
    ELSE
    LET key == IF ~keys.given THEN KeyOfFile(files[i]) ELSE keys.v[i]
        data == Squeeze(files[i].values)
    IN  IF t.data_per_streamline[key].present /\ ~overwrite
        THEN [outcome |-> ParserError("key exists"), sft |-> t]
        ELSE IF data.ndim = 0
        THEN [outcome |-> AttrResult("TypeError", "", <<>>), sft |-> t]
        ELSE IF Len(data.values) # t.pts
        THEN [outcome |-> ParserError("wrong size"), sft |-> t]
        ELSE DppLoop(files, AttachDpp(t, key, data.values), keys, overwrite,
                     i + 1, Append(new_keys, key))

load_dpp_files_as_dpp(files, t, keys, overwrite) ==
    IF keys.given /\ Len(keys.v) # Len(files)
    THEN [outcome |-> ParserError("one key per file"), sft |-> t]
    ELSE DppLoop(files, t, keys, overwrite, 1, <<>>)

---------------------------------------------------------------------------
(* SpecAttr: a script loads a list of scalar files into a tractogram.      *)

MaxFiles == 2         \* files of one dps / dpp loader call

\* Value counts of the files of a call: the expected count or one more.
FileSizes(expected) == {expected, expected + 1}

FileLists(expected) ==
    {files \in SeqsUpTo({ScalarFile(stem, Filled(count, 1)) :
                             stem \in AttrKeys,
                             count \in FileSizes(expected)}, MaxFiles) :
        files # <<>>}

\* keys: None, one key per file, or a list that is one key short.
KeyLists(files) ==
    {None} \cup {Some(ks) : ks \in [1..Len(files) -> AttrKeys]}
           \cup {Some([i \in 1..(Len(files) - 1) |-> "fa"])}

NoAttrCall(t) ==
    [fn |-> "none", files |-> <<>>, keys |-> None, overwrite |-> FALSE,
     before |-> t, outcome |-> AttrResult("none", "", <<>>)]

AttrCall(fn, files, keys, overwrite, before, outcome) ==
    [fn |-> fn, files |-> files, keys |-> keys, overwrite |-> overwrite,
     before |-> before, outcome |-> outcome]

InitAttr ==
    /\ PipelineIdle
    /\ Idle
    /\ fs = NoFiles
    /\ result = NoResult
    /\ sft \in Tractograms
    /\ attr = NoAttrCall(sft)
    /\ home = Unused
    /\ fetch = Unused
    /\ load = Unused
    /\ gen = Unused
    /\ search = Unused

LoadDps ==
    /\ attr.fn = "none"
    /\ \E files \in FileLists(sft.n) : \E keys \in KeyLists(files) :
       \E overwrite \in BOOLEAN :
          LET r == load_dps_files_as_dps(files, sft, keys, overwrite)
          IN  /\ sft' = r.sft
              /\ attr' = AttrCall("dps", files, keys, overwrite, sft, r.outcome)
    /\ UNCHANGED <<streamVars, home, fetch, load, gen, search>>

LoadDpp ==
    /\ attr.fn = "none"
    /\ \E files \in FileLists(sft.pts) : \E keys \in KeyLists(files) :
       \E overwrite \in BOOLEAN :
          LET r == load_dpp_files_as_dpp(files, sft, keys, overwrite)
          IN  /\ sft' = r.sft
              /\ attr' = AttrCall("dpp", files, keys, overwrite, sft, r.outcome)
    /\ UNCHANGED <<streamVars, home, fetch, load, gen, search>>

NextAttr == LoadDps \/ LoadDpp

SpecAttr == InitAttr /\ [][NextAttr]_vars

\* The table a loader attaches to, and the value count it expects.
OwnTable(fn, t) ==
    IF fn = "dps" THEN t.data_per_streamline ELSE t.data_per_point

ExpectedCount(fn, t) == IF fn = "dps" THEN t.n ELSE t.pts

\* The key the call gives to its i-th file.
CallKey(i) ==
    IF attr.keys.given THEN attr.keys.v[i] ELSE KeyOfFile(attr.files[i])

KeysMatchFiles == ~attr.keys.given \/ Len(attr.keys.v) = Len(attr.files)

\* C11: a call that ends with the wrong-size usage error leaves both tables
\* of the tractogram as they were before the call.
C11_MismatchLeavesUnmodified ==
    (attr.fn # "none" /\ attr.outcome.status = "usage"
                      /\ attr.outcome.msg = "wrong size")
        => /\ sft.data_per_streamline = attr.before.data_per_streamline
           /\ sft.data_per_point = attr.before.data_per_point

\* C17: with overwrite=False a key that exists in the loader's own table
\* keeps its value and a call that targets it does not succeed; with
\* overwrite=True a call that succeeds leaves the loaded data at the key.
C17_NoOverwriteWithoutPermission ==
    (attr.fn # "none" /\ KeysMatchFiles) =>
        \A i \in 1..Len(attr.files) :
            OwnTable(attr.fn, attr.before)[CallKey(i)].present =>
                IF attr.overwrite
                THEN attr.outcome.status = "ok" =>
                        OwnTable(attr.fn, sft)[CallKey(i)].values
                            = Filled(ExpectedCount(attr.fn, sft), 1)
                ELSE /\ OwnTable(attr.fn, sft)[CallKey(i)]
                            = OwnTable(attr.fn, attr.before)[CallKey(i)]
                     /\ attr.outcome.status # "ok"

---------------------------------------------------------------------------
(* fetch_data (scilpy/io/fetcher.py): each requested dataset is downloaded *)
(* as <home>/<name>.zip, checked against its MD5 and extracted into        *)
(* <home>/<name>, unless that directory exists already.                    *)

\* A member of a zip archive: its path, part by part, and whether its name
\* ends with a slash (a directory member).
Entry(parts, dir) == [parts |-> parts, dir |-> dir]

\* What a download writes to disk: bytes, which may or may not be a zip
\* archive with members.
Payload(bytes, zip, entries) ==
    [bytes |-> bytes, zip |-> zip, entries |-> entries]

NoPayload == Payload(0, FALSE, <<>>)

Rooted ==
    Payload(1, TRUE, <<Entry(<<"root">>, TRUE),
                       Entry(<<"root", "a.txt">>, FALSE),
                       Entry(<<"root", "sub", "b.txt">>, FALSE)>>)

Rootless ==
    Payload(2, TRUE, <<Entry(<<"a.txt">>, FALSE), Entry(<<"b.txt">>, FALSE)>>)

OnlyRoot == Payload(3, TRUE, <<Entry(<<"root">>, TRUE)>>)

EmptyZip == Payload(4, TRUE, <<>>)

Tampered ==
    Payload(5, TRUE, <<Entry(<<"root">>, TRUE),
                       Entry(<<"root", "c.txt">>, FALSE)>>)

ErrorPage == Payload(6, FALSE, <<>>)

ValidArchives == {Rooted, Rootless, OnlyRoot, EmptyZip}

\* hashlib.md5(data).hexdigest(): different bytes, different digests.
Digests == <<"c190e6", "54b6e2", "2aeac4", "eed227", "19116f", "08fcf4">>

MD5(payload) == Digests[payload.bytes]

\* A wrong validity test: every downloaded file passes for a zip archive.
IsZipFileAlways(payload) == TRUE

\* zipfile.ZipFile(path) raises BadZipFile on anything but a zip archive.
IsZipFile(payload) == payload.zip

\* The keys of files_dict, in the order of the dict.
DatasetKeys == <<"bundles.zip", "notes.txt">>

Datasets == {DatasetKeys[i] : i \in DOMAIN DatasetKeys}

\* os.path.splitext(full_path)
SplitExt(f) ==
    IF f = "bundles.zip" THEN [no_ext |-> "bundles", ext |-> ".zip"]
    ELSE [no_ext |-> "notes", ext |-> ".txt"]

Stems == {SplitExt(f).no_ext : f \in Datasets}

\* A directory under the home: absent, or present with the paths below it.
NoDir == [present |-> FALSE, paths |-> {}]
DirOf(paths) == [present |-> TRUE, paths |-> paths]

NoZip == [present |-> FALSE, payload |-> NoPayload]
ZipOf(payload) == [present |-> TRUE, payload |-> payload]

\* pathlib.Path(zipinfos[0].filename).parts[0] + '/'
RootDir(entries) == entries[1].parts[1]

\* s.startswith(root_dir): the first part is the root and a slash follows.
StartsWithRoot(entry, root) ==
    /\ entry.parts[1] = root
    /\ (Len(entry.parts) > 1 \/ entry.dir)

AllStartWithRoot(entries) ==
    \A i \in DOMAIN entries : StartsWithRoot(entries[i], RootDir(entries))

\* zipinfo.filename[nb_root:]
StripRoot(entry) == Entry(Tail(entry.parts), entry.dir)

\* z.extract(zipinfo, path): the member and the directories above it.
Extracted(entry) ==
    {Entry(SubSeq(entry.parts, 1, k), TRUE) : k \in 1..(Len(entry.parts) - 1)}
        \cup {entry}

\* The loop of lines 127-130 over the members from i on.
RECURSIVE ExtractStripped(_, _, _)
ExtractStripped(entries, i, dir) ==
    IF i > Len(entries) THEN dir
    ELSE LET stripped == StripRoot(entries[i])
         IN  IF stripped.parts # <<>>
             THEN ExtractStripped(entries, i + 1,
                                  DirOf(dir.paths \cup Extracted(stripped)))
             ELSE ExtractStripped(entries, i + 1, dir)

FetchEvent(key, step) == [key |-> key, step |-> step]

FetchResult(outcome, h, events) ==
    [outcome |-> outcome, home |-> h, events |-> events]

\* The loop of fetch_data over keys; h is the home as the earlier
\* iterations left it, served the content the server answers with.
RECURSIVE FetchLoop(_, _, _, _, _)
FetchLoop(files_dict, keys, h, served, events) ==
    IF keys = <<>> THEN FetchResult("ok", h, events)
    ELSE
    LET f == Head(keys)
        url_md5 == files_dict[f]
        full_path_no_ext == SplitExt(f).no_ext
        ext == SplitExt(f).ext
    IN  IF h.dirs[full_path_no_ext].present
        THEN FetchLoop(files_dict, Tail(keys), h, served,
                       Append(events, FetchEvent(f, "on disk")))
        ELSE IF ext # ".zip"
        THEN FetchResult("NotImplementedError", h, events)
        ELSE
        LET data == served[f]
            downloaded == [h EXCEPT !.zips[f] = ZipOf(data)]
            checked == events \o <<FetchEvent(f, "download"),
                                   FetchEvent(f, "md5")>>
        IN  IF MD5(data) # url_md5
            THEN IF ~IsZipFile(data)
                 THEN FetchResult("RuntimeError", downloaded, checked)
                 ELSE FetchResult("ValueError", downloaded, checked)
            ELSE IF ~IsZipFile(data)
            THEN FetchResult("BadZipFile", downloaded, checked)
            ELSE IF data.entries = <<>>
            THEN FetchResult("IndexError", downloaded, checked)
            ELSE IF AllStartWithRoot(data.entries)
            THEN FetchLoop(files_dict, Tail(keys),
                           [downloaded EXCEPT !.dirs[full_path_no_ext] =
                                ExtractStripped(data.entries, 1, @)],
                           served,
                           Append(checked, FetchEvent(f, "extract")))
            \* z.extractall(full_path): full_path is the zip file itself
            ELSE FetchResult("NotADirectoryError", downloaded, checked)

\* The keys argument: None, a str or a list.
KeysNone == [kind |-> "None", name |-> "", list |-> <<>>]
KeysStr(f) == [kind |-> "str", name |-> f, list |-> <<>>]
KeysList(l) == [kind |-> "list", name |-> "", list |-> l]

\* Lines 90-93: None stands for every key of the dict, a str for itself.
KeysOf(keys) ==
    IF keys.kind = "None" THEN DatasetKeys
    ELSE IF keys.kind = "str" THEN <<keys.name>>
    ELSE keys.list

fetch_data(files_dict, keys, h, served) ==
    FetchLoop(files_dict, KeysOf(keys), [h EXCEPT !.exists = TRUE], served,
              <<>>)

---------------------------------------------------------------------------
(* SpecFetch: test modules call fetch_data one after the other on the same *)
(* home directory.                                                         *)

MaxCalls == 2         \* fetch_data calls on one home directory

KeyArgs ==
    {KeysNone} \cup {KeysStr(f) : f \in Datasets}
               \cup {KeysList(<<>>), KeysList(<<"bundles.zip">>),
                     KeysList(<<"bundles.zip", "notes.txt">>),
                     KeysList(<<"notes.txt", "bundles.zip">>)}

\* The home directory before the first call.
Homes ==
    {[exists |-> FALSE, zips |-> [f \in Datasets |-> NoZip],
      dirs |-> [d \in Stems |-> NoDir]]}
    \cup {[exists |-> TRUE, zips |-> [f \in Datasets |-> NoZip],
           dirs |-> [d \in Stems |-> IF d \in present THEN DirOf({})
                                     ELSE NoDir]] :
            present \in SUBSET Stems}

\* files_dict names the MD5 of the archive published for each key.
FilesDict(published) == [f \in Datasets |-> MD5(published)]

\* What the url of a key answers with: the published archive, another
\* archive, or a page that is no archive.
Responses(published) == {published, Tampered, ErrorPage}

InitFetch ==
    /\ PipelineIdle
    /\ Idle
    /\ fs = NoFiles
    /\ result = NoResult
    /\ sft = Unused
    /\ attr = Unused
    /\ home \in Homes
    /\ \E published \in ValidArchives :
          fetch = [calls |-> 0, published |-> published,
                   files_dict |-> FilesDict(published),
                   keys |-> KeysNone, outcome |-> "none", events |-> <<>>,
                   before |-> home, completed |-> {}, completedBefore |-> {}]
    /\ load = Unused
    /\ gen = Unused
    /\ search = Unused

FetchData ==
    /\ fetch.calls < MaxCalls
    /\ \E keys \in KeyArgs : \E data \in Responses(fetch.published) :
          LET r == fetch_data(fetch.files_dict, keys, home,
                              [f \in Datasets |-> data])
          IN  /\ home' = r.home
              /\ fetch' = [fetch EXCEPT
                    !.calls = @ + 1,
                    !.keys = keys,
                    !.outcome = r.outcome,
                    !.events = r.events,
                    !.before = home,
                    !.completedBefore = fetch.completed,
                    !.completed =
                        IF r.outcome = "ok"
                        THEN @ \cup {KeysOf(keys)[i] :
                                        i \in DOMAIN KeysOf(keys)}
                        ELSE @]
    /\ UNCHANGED <<streamVars, sft, attr, load, gen, search>>

NextFetch == FetchData

SpecFetch == InitFetch /\ [][NextFetch]_vars

\* The steps the last call took for a key.
StepsOf(f) ==
    {i \in DOMAIN fetch.events : fetch.events[i].key = f}

Did(f, step) ==
    \E i \in StepsOf(f) : fetch.events[i].step = step

\* The last call compared the MD5 of the file it downloaded for f and found
\* it different from the expected one.
Mismatch(f) ==
    /\ Did(f, "md5")
    /\ MD5(home.zips[f].payload) # fetch.files_dict[f]

DirAfter(f) == home.dirs[SplitExt(f).no_ext]

DirBefore(f) == fetch.before.dirs[SplitExt(f).no_ext]

\* C12: after a checksum mismatch the call has raised RuntimeError when the
\* downloaded file is no zip archive and ValueError when it is one, nothing
\* was extracted, and the file was downloaded once.
C12_ChecksumMismatchTerminal ==
    \A f \in Datasets :
        Mismatch(f) =>
            /\ fetch.outcome = IF home.zips[f].payload.zip THEN "ValueError"
                               ELSE "RuntimeError"
            /\ ~Did(f, "extract")
            /\ DirAfter(f) = DirBefore(f)
            /\ Cardinality({i \in StepsOf(f) :
                               fetch.events[i].step = "download"}) = 1
            /\ fetch.events[Len(fetch.events)].key = f

C12_Witness ==
    /\ fetch.calls = 2
    /\ Mismatch("bundles.zip")
    /\ fetch.outcome = "ValueError"
    /\ fetch.keys = KeysList(<<"notes.txt", "bundles.zip">>)
    /\ Did("notes.txt", "on disk")
    /\ home.zips["bundles.zip"].payload = Tampered
    /\ ~DirAfter("bundles.zip").present

\* The paths the claim expects below <home>/<name>: the members without
\* their common root if they share one, the members as they are if not.
HasCommonRoot(entries) ==
    \E root \in {entries[i].parts[1] : i \in DOMAIN entries} :
        \A i \in DOMAIN entries : StartsWithRoot(entries[i], root)

ExpectedPaths(entries) ==
    UNION {IF HasCommonRoot(entries)
           THEN (IF StripRoot(entries[i]).parts = <<>> THEN {}
                 ELSE Extracted(StripRoot(entries[i])))
           ELSE Extracted(entries[i]) : i \in DOMAIN entries}

Verified(f) ==
    /\ Did(f, "md5")
    /\ MD5(home.zips[f].payload) = fetch.files_dict[f]

\* C13: after a download whose MD5 matches, the call has gone on without an
\* error for that key and <home>/<name> holds the archive's members,
\* without their common root if they share one.
C13_ExtractionTarget ==
    \A f \in Datasets :
        Verified(f) =>
            /\ Did(f, "extract")
            /\ DirAfter(f).paths = ExpectedPaths(home.zips[f].payload.entries)

\* C14: a key for which an earlier call completed without error is only
\* found on disk by a later call, its directory is left as it was, and a
\* download is made only for a key whose directory was absent.
C14_FetchIdempotent ==
    \A i \in DOMAIN fetch.events :
        LET f == fetch.events[i].key
        IN  /\ f \in fetch.completedBefore =>
                  /\ fetch.events[i].step = "on disk"
                  /\ DirAfter(f) = DirBefore(f)
            /\ fetch.events[i].step = "download" => ~DirBefore(f).present

---------------------------------------------------------------------------
(* load_tractogram_with_reference: the tractogram loader is called with    *)
(* 'same' for .trk files and with a reference image for the formats that   *)
(* carry no header of their own.                                           *)

\* An attribute of the argparse Namespace: not defined by the script's
\* parser, defined and None, or defined with a value.
NoAttribute == [has |-> FALSE, none |-> TRUE, value |-> ""]
NoneAttribute == [has |-> TRUE, none |-> TRUE, value |-> ""]
Attribute(value) == [has |-> TRUE, none |-> FALSE, value |-> value]

\* not getattr(args, arg_name, None) is None
is_argument_set(args, arg_name) ==
    args[arg_name].has /\ ~args[arg_name].none

\* A wrong truth test: None and the empty string pass for a reference.
TruthyAlways(attribute) == TRUE

\* if args.__getattribute__(arg_ref): None and '' are false.
Truthy(attribute) == ~attribute.none /\ attribute.value # ""

\* os.path.splitext(filepath)[1]
PathExt(filepath) == filepath.ext

RefFormats == {".tck", ".fib", ".vtk", ".dpy"}

LoaderCall(filepath, reference, bbox_valid_check) ==
    [filepath |-> filepath, reference |-> reference,
     bbox_valid_check |-> bbox_valid_check]

LoadResult(status, msg, loader_calls, warned, offsets_dtype) ==
    [status |-> status, msg |-> msg, loader_calls |-> loader_calls,
     warned |-> warned, offsets_dtype |-> offsets_dtype]

\* parser.error(msg) ends the call; the loader was not called before it.
LoadError(msg) == LoadResult("usage", msg, <<>>, FALSE, "")

\* loaded is the tractogram load_tractogram returns: its number of
\* streamlines and the dtype of its offsets.
load_tractogram_with_reference(args, filepath, arg_name, loaded) ==
    LET bbox_check == IF is_argument_set(args, "bbox_check")
                      THEN args["bbox_check"].value = "True"
                      ELSE TRUE
        ext == PathExt(filepath)
        name_given == arg_name.given /\ arg_name.v # ""
        arg_ref == arg_name.v \o "_ref"
    IN  IF ext = ".trk"
        THEN IF ~is_argument_set(args, "reference") /\ name_given
                  /\ ~args[arg_ref].has
             THEN LoadResult("AttributeError", arg_ref, <<>>, FALSE, "")
             ELSE LoadResult("sft", "",
                    <<LoaderCall(filepath, "same", bbox_check)>>,
                    is_argument_set(args, "reference")
                        \/ (name_given /\ Truthy(args[arg_ref])),
                    IF loaded.n = 0 THEN "int64" ELSE loaded.offsets_dtype)
        ELSE IF ext \in RefFormats
        THEN IF name_given
             THEN IF ~args[arg_ref].has
                  THEN LoadResult("AttributeError", arg_ref, <<>>, FALSE, "")
                  ELSE IF Truthy(args[arg_ref])
                  THEN LoadResult("sft", "",
                         <<LoaderCall(filepath, args[arg_ref].value,
                                      bbox_check)>>,
                         FALSE, loaded.offsets_dtype)
                  ELSE LoadError("--" \o arg_ref \o " is required")
             ELSE IF ~is_argument_set(args, "reference")
                     \/ args["reference"].none
             THEN LoadError("--reference is required")
             ELSE LoadResult("sft", "",
                    <<LoaderCall(filepath, args["reference"].value,
                                 bbox_check)>>,
                    FALSE, loaded.offsets_dtype)
        ELSE LoadError("unsupported file format")

---------------------------------------------------------------------------
(* SpecLoad: a script hands its parsed arguments and one tractogram path   *)
(* to load_tractogram_with_reference.                                      *)

Extensions == {".trk", ".tck", ".fib", ".vtk", ".dpy", ".nii", ".TRK", ""}

TractogramPath(ext) == [stem |-> "bundle", ext |-> ext]

\* The Namespaces of the scripts: --reference and --bbox_check exist only
\* in the scripts that add them; a script that names its reference argument
\* has added it (add_reference_arg), so in_ref is then defined.
Namespaces ==
    [{"reference"} -> {NoAttribute, NoneAttribute, Attribute(""),
                       Attribute("t1.nii.gz")}]
    \X [{"in_ref"} -> {NoneAttribute, Attribute(""), Attribute("b0.nii.gz")}]
    \X [{"bbox_check"} -> {NoAttribute, NoneAttribute, Attribute("True"),
                           Attribute("False")}]

NamespaceOf(triple) ==
    [a \in {"reference", "in_ref", "bbox_check"} |->
        IF a = "reference" THEN triple[1]["reference"]
        ELSE IF a = "in_ref" THEN triple[2]["in_ref"]
        ELSE triple[3]["bbox_check"]]

ArgNames == {NoKey, Key(""), Key("in")}

\* What the tractogram loader returns: nibabel gives an empty tractogram
\* float64 offsets.
LoadedTractograms ==
    {[n |-> 0, offsets_dtype |-> "float64"],
     [n |-> 1, offsets_dtype |-> "int64"]}

NoLoad ==
    [called |-> FALSE, args |-> <<>>, filepath |-> TractogramPath(""),
     arg_name |-> NoKey, outcome |-> LoadResult("none", "", <<>>, FALSE, "")]

InitLoad ==
    /\ PipelineIdle
    /\ Idle
    /\ fs = NoFiles
    /\ result = NoResult
    /\ sft = Unused
    /\ attr = Unused
    /\ home = Unused
    /\ fetch = Unused
    /\ \E triple \in Namespaces : load = [NoLoad EXCEPT !.args = NamespaceOf(triple)]
    /\ gen = Unused
    /\ search = Unused

LoadTractogram ==
    /\ ~load.called
    /\ \E ext \in Extensions : \E arg_name \in ArgNames :
       \E loaded \in LoadedTractograms :
          load' = [load EXCEPT
              !.called = TRUE,
              !.filepath = TractogramPath(ext),
              !.arg_name = arg_name,
              !.outcome = load_tractogram_with_reference(
                              load.args, TractogramPath(ext), arg_name, loaded)]
    /\ UNCHANGED <<streamVars, sft, attr, home, fetch, gen, search>>

NextLoad == LoadTractogram

SpecLoad == InitLoad /\ [][NextLoad]_vars

LoaderCalled == load.outcome.loader_calls # <<>>

\* The reference the call is about: args.<arg_name>_ref when arg_name is
\* given, args.reference otherwise; set means defined and not None.
ApplicableReferenceSet ==
    IF load.arg_name.given /\ load.arg_name.v # ""
    THEN is_argument_set(load.args, load.arg_name.v \o "_ref")
    ELSE is_argument_set(load.args, "reference")

Loadable ==
    \/ PathExt(load.filepath) = ".trk"
    \/ PathExt(load.filepath) \in RefFormats /\ ApplicableReferenceSet

\* C15: the loader is called only for .trk, or for .tck/.fib/.vtk/.dpy
\* with the applicable reference set; in every other case the call ends
\* with a usage error and the loader has not been called.
C15_UnsupportedInputRejected ==
    load.called =>
        /\ LoaderCalled => Loadable
        /\ ~Loadable => (load.outcome.status = "usage" /\ ~LoaderCalled)

C15_Witness ==
    /\ load.called
    /\ PathExt(load.filepath) = ".tck"
    /\ load.arg_name = Key("in")
    /\ load.args["in_ref"] = NoneAttribute
    /\ load.args["reference"] = Attribute("t1.nii.gz")
    /\ load.outcome.status = "usage"
    /\ ~LoaderCalled

---------------------------------------------------------------------------
(* SpecInconsistent: reconstruct_streamlines on arrays whose offsets and   *)
(* lengths do not describe the data they come with.                        *)

LooseCounts == {1, 2}

LoosePoints == {1, 2}

LooseOffsets == {0, 1, 2}

\* offsets the running sum of lengths, data of 3 * sum(lengths) scalars.
Consistent(enc) ==
    /\ enc.offsets = CumSum(enc.lengths, 0)
    /\ Len(FlatData(enc.data)) = 3 * SumSeq(enc.lengths)

InconsistentSet ==
    {enc \in {[data |-> Arr1(IotaFlat(points)), offsets |-> offs,
               lengths |-> lens] :
                 points \in LoosePoints,
                 offs \in UNION {[1..n -> LooseOffsets] : n \in LooseCounts},
                 lens \in UNION {[1..n -> StoredLengths] : n \in LooseCounts}} :
        Len(enc.offsets) = Len(enc.lengths) /\ ~Consistent(enc)}

InitInconsistent ==
    /\ ToolsIdle
    /\ PipelineIdle
    /\ store \in InconsistentSet
    /\ call = NoCall
    /\ result = NoResult
    /\ fs = NoFiles
    /\ archive = NoArchive
    /\ reads = {}
    /\ workers = <<>>

NextInconsistent == ReadArrays

SpecInconsistent == InitInconsistent /\ [][NextInconsistent]_vars

AllInRange == \A k \in DOMAIN CallIndices : InRange(CallIndices[k])

\* The range computed for stored streamline i (from 0) lies inside data.
RangeInside(i) ==
    \/ store.lengths[i + 1] = 0
    \/ 3 * (store.offsets[i + 1] + store.lengths[i + 1])
          <= Len(FlatData(store.data))

\* C16 as stated: no call on inconsistent arrays fails.
C16_NeverDetected ==
    (call.fn = "arrays" /\ AllInRange) => result.status = "ok"

\* C16: a call on inconsistent arrays returns, for each requested index,
\* the scalars of the computed range when every such range lies inside
\* data, and raises ValueError as soon as one of them does not.
C16_DetectedOnlyOnOverrun ==
    (call.fn = "arrays" /\ AllInRange) =>
        IF \A k \in DOMAIN CallIndices : RangeInside(CallIndices[k])
        THEN /\ result.status = "ok"
             /\ Len(result.value) = Len(CallIndices)
             /\ \A k \in DOMAIN CallIndices :
                   result.value[k] = StoredStreamline(store, CallIndices[k])
        ELSE result = Raise("ValueError")

C16_Witness ==
    /\ call.fn = "arrays"
    /\ store.data = Arr1(IotaFlat(2))
    /\ store.offsets = <<0, 1>>
    /\ store.lengths = <<1, 2>>
    /\ call.indices = None
    /\ result = Raise("ValueError")

---------------------------------------------------------------------------
(* ichunk: a generator of successive n-sized chunks of a sequence.         *)

\* A wrong islice: one element more than asked for.
IsliceOneMore(sequence, pos, n) ==
    SubSeq(sequence, pos + 1, Min(pos + n + 1, Len(sequence)))

\* list(islice(sequence, n)) on an iterator that has given pos elements:
\* the next n elements, or as many as are left.
Islice(sequence, pos, n) ==
    SubSeq(sequence, pos + 1, Min(pos + n, Len(sequence)))

\* The generator just created: nothing of its body has run.
NewGenerator(sequence, n) ==
    [sequence |-> sequence, n |-> n, pos |-> 0, yielded |-> <<>>,
     pc |-> "created"]

\* next(generator): the body runs from where it was suspended to the next
\* yield, or to its end when the chunk it takes is empty.
ichunk(g) ==
    LET chunk == Islice(g.sequence, g.pos, g.n)
    IN  IF Len(chunk) > 0
        THEN [g EXCEPT !.pos = @ + Len(chunk),
                       !.yielded = Append(@, chunk),
                       !.pc = "suspended"]
        ELSE [g EXCEPT !.pc = "exhausted"]

---------------------------------------------------------------------------
(* SpecChunk: a for loop consumes the generator to its end.                *)

MaxSeq == 4           \* elements of the chunked sequence
MaxChunk == 3         \* chunk size n

Elements == {"s1", "s2"}

InitChunk ==
    /\ PipelineIdle
    /\ Idle
    /\ fs = NoFiles
    /\ result = NoResult
    /\ sft = Unused
    /\ attr = Unused
    /\ home = Unused
    /\ fetch = Unused
    /\ load = Unused
    /\ search = Unused
    /\ \E sequence \in SeqsUpTo(Elements, MaxSeq) : \E n \in 0..MaxChunk :
          gen = NewGenerator(sequence, n)

IchunkNext ==
    /\ gen.pc # "exhausted"
    /\ gen' = ichunk(gen)
    /\ UNCHANGED <<streamVars, sft, attr, home, fetch, load, search>>

NextChunk == IchunkNext

SpecChunk == InitChunk /\ [][NextChunk]_vars

\* The consuming loop calls next until the generator is exhausted.
SpecChunkFair == SpecChunk /\ WF_vars(IchunkNext)

\* What has been yielded so far is the consumed prefix, cut into chunks of
\* n elements with a last chunk of 1 to n.
PartitionSoFar ==
    gen.n >= 1 =>
        /\ Concat(gen.yielded) = SubSeq(gen.sequence, 1, gen.pos)
        /\ \A k \in DOMAIN gen.yielded :
              /\ Len(gen.yielded[k]) >= 1
              /\ Len(gen.yielded[k]) <= gen.n
              /\ k < Len(gen.yielded) => Len(gen.yielded[k]) = gen.n
        /\ gen.pc = "exhausted" => Concat(gen.yielded) = gen.sequence

\* C18: for n >= 1 the generator is exhausted after finitely many chunks,
\* the chunks yielded are never empty and at most n long, all but the last
\* are n long, and together they are the sequence; an empty sequence yields
\* no chunk.
C18_IchunkPartitions ==
    /\ [](PartitionSoFar)
    /\ <>(gen.pc = "exhausted")

C18_Witness ==
    /\ gen.pc = "exhausted"
    /\ gen.n = 2
    /\ gen.sequence = <<"s1", "s2", "s1">>
    /\ gen.yielded = << <<"s1", "s2">>, <<"s1">> >>

---------------------------------------------------------------------------
(* _test_adjacent_keywords (scil_search_keywords.py, option --next).  A    *)
(* string is the sequence of its characters.                               *)

Characters == {"a", "b", "A", "x", " "}

\* str.lower()
Lower(str) == [i \in DOMAIN str |-> IF str[i] = "A" THEN "a" ELSE str[i]]

\* sub occurs in str at index at (from 0).
OccursAt(str, sub, at) ==
    /\ at >= 0
    /\ at + Len(sub) <= Len(str)
    /\ \A j \in 1..Len(sub) : str[at + j] = sub[j]

\* str.find(sub, start): the lowest index from start on where sub occurs,
\* -1 when there is none.
Find(str, sub, start) ==
    LET found == {at \in start..Len(str) : OccursAt(str, sub, at)}
    IN  IF found = {} THEN -1
        ELSE CHOOSE at \in found : \A other \in found : at <= other

\* The loop of lines 283-288 over the keywords that are left.
RECURSIVE AdjacentLoop(_, _, _)
AdjacentLoop(keywords, text, position) ==
    IF keywords = <<>> THEN TRUE
    ELSE LET key == Head(keywords)
             found == Find(Lower(text), key, position)
         IN  IF found = -1 THEN FALSE
             ELSE AdjacentLoop(Tail(keywords), text, found + Len(key))

_test_adjacent_keywords(keywords, text) == AdjacentLoop(keywords, text, 0)

---------------------------------------------------------------------------
(* SpecSearch: the keywords of the command line are tested against one     *)
(* script name or docstring.                                               *)

MaxText == 4          \* characters of the searched text
MaxKeywords == 2      \* keywords of the command line

Keywords == {<<"a">>, <<"b">>, <<"A">>, <<"a", "b">>}

KeywordLists == {ks \in SeqsUpTo(Keywords, MaxKeywords) : ks # <<>>}

Texts == SeqsUpTo(Characters, MaxText)

InitSearch ==
    /\ PipelineIdle
    /\ Idle
    /\ fs = NoFiles
    /\ result = NoResult
    /\ sft = Unused
    /\ attr = Unused
    /\ home = Unused
    /\ fetch = Unused
    /\ load = Unused
    /\ gen = Unused
    /\ \E keywords \in KeywordLists : \E text \in Texts :
          search = [called |-> FALSE, keywords |-> keywords, text |-> text,
                    returned |-> FALSE]

TestAdjacent ==
    /\ ~search.called
    /\ search' = [search EXCEPT
           !.called = TRUE,
           !.returned = _test_adjacent_keywords(search.keywords, search.text)]
    /\ UNCHANGED <<streamVars, sft, attr, home, fetch, load, gen>>

NextSearch == TestAdjacent

SpecSearch == InitSearch /\ [][NextSearch]_vars

\* Only blanks lie in str from index at (from 0) for gap characters.
Blank(str, at, gap) ==
    /\ at + gap <= Len(str)
    /\ \A j \in 1..gap : str[at + j] = " "

\* The keywords occur in str one after the other, the first at index at,
\* with nothing but blanks between one and the next.
RECURSIVE NextToEachOther(_, _, _)
NextToEachOther(keywords, str, at) ==
    IF keywords = <<>> THEN TRUE
    ELSE /\ OccursAt(str, Head(keywords), at)
         /\ \/ Tail(keywords) = <<>>
            \/ \E gap \in 0..Len(str) :
                  /\ Blank(str, at + Len(Head(keywords)), gap)
                  /\ NextToEachOther(Tail(keywords), str,
                                     at + Len(Head(keywords)) + gap)

Adjacent(keywords, text) ==
    \E at \in 0..Len(text) :
        NextToEachOther([k \in DOMAIN keywords |-> Lower(keywords[k])],
                        Lower(text), at)

\* C19: the call returns True exactly when the keywords occur in the text
\* next to each other in the given order, whatever their case.
C19_AdjacentKeywords ==
    search.called =>
        (search.returned <=> Adjacent(search.keywords, search.text))

====
